---- MODULE Spec2Model ----
(***************************************************************************)
(* Model of the identifier-numbering and voucher-balancing logic of the    *)
(* Fintcs server (server/storage.ts, server/routes.ts, shared schema) and  *)
(* of the voucher form of the client.                                      *)
(*                                                                         *)
(* Strings are sequences of one-character strings, so that split, slice,   *)
(* parseInt, padStart and the ORDER BY ... DESC comparison are computed    *)
(* character by character as the code computes them.  Text is ordered by   *)
(* code point.                                                             *)
(***************************************************************************)
EXTENDS Integers, Sequences, FiniteSets, TLC

(***************************************************************************)
(* Bounds of the model.                                                    *)
(***************************************************************************)
NumProcs == 2
MaxRows == 3
LastYear == 2025
MaxEntries == 3
MaxAmount == 2
MaxNetLoan == 12
MaxInstallments == 4
MaxEdits == 1

\* reviews (approve or reject requests) of the pending edits
MaxReviews == 2

(***************************************************************************)
(* JavaScript strings and numbers.                                         *)
(***************************************************************************)
Digits == <<"0", "1", "2", "3", "4", "5", "6", "7", "8", "9">>

Upper == <<"A", "B", "C", "D", "E", "F", "G", "H", "I", "J", "K", "L", "M",
           "N", "O", "P", "Q", "R", "S", "T", "U", "V", "W", "X", "Y", "Z">>

Lower == <<"a", "b", "c", "d", "e", "f", "g", "h", "i", "j", "k", "l", "m",
           "n", "o", "p", "q", "r", "s", "t", "u", "v", "w", "x", "y", "z">>

\* the characters of the model in code-point order
Chars == <<" ", "+", "-">> \o Digits \o Upper \o <<"_">> \o Lower

IndexOf(seq, c) == CHOOSE i \in 1..Len(seq) : seq[i] = c

CharCode(c) == IndexOf(Chars, c)

IsDigit(c) == \E i \in 1..10 : Digits[i] = c

DigitVal(c) == IndexOf(Digits, c) - 1

\* a JavaScript number that is an integer, or NaN
Num(v) == [nan |-> FALSE, val |-> v]

NaN == [nan |-> TRUE, val |-> 0]

\* the value undefined, which is no string of characters
Undefined == <<"undefined">>

\* s < t in the order of a text column
RECURSIVE StrLess(_, _)
StrLess(s, t) ==
  IF t = <<>> THEN FALSE
  ELSE IF s = <<>> THEN TRUE
  ELSE IF s[1] # t[1] THEN CharCode(s[1]) < CharCode(t[1])
  ELSE StrLess(Tail(s), Tail(t))

\* String.prototype.slice(start) for start >= 0
Slice(s, start) == SubSeq(s, start + 1, Len(s))

\* String.prototype.slice(-n)
SliceLast(s, n) == IF Len(s) <= n THEN s ELSE SubSeq(s, Len(s) - n + 1, Len(s))

\* String.prototype.split(sep): the pieces between the separators
RECURSIVE Split(_, _)
Split(s, sep) ==
  IF \A i \in 1..Len(s) : s[i] # sep THEN <<s>>
  ELSE LET k == CHOOSE i \in 1..Len(s) :
                  s[i] = sep /\ \A j \in 1..(i - 1) : s[j] # sep
       IN <<SubSeq(s, 1, k - 1)>> \o Split(SubSeq(s, k + 1, Len(s)), sep)

\* array[i] with a zero-based index: undefined past the end
At(arr, i) == IF i + 1 <= Len(arr) THEN arr[i + 1] ELSE Undefined

RECURSIVE DigitsValue(_, _)
DigitsValue(s, acc) ==
  IF s = <<>> \/ ~IsDigit(s[1]) THEN acc
  ELSE DigitsValue(Tail(s), acc * 10 + DigitVal(s[1]))

RECURSIVE SkipSpaces(_)
SkipSpaces(s) == IF s # <<>> /\ s[1] = " " THEN SkipSpaces(Tail(s)) ELSE s

\* parseInt(x): leading blanks, an optional sign, then the longest run of
\* digits; NaN when there is no digit (parseInt(undefined) reads "undefined")
ParseInt(x) ==
  IF x = Undefined THEN NaN
  ELSE LET t == SkipSpaces(x)
           neg == t # <<>> /\ t[1] = "-"
           u == IF t # <<>> /\ t[1] \in {"-", "+"} THEN Tail(t) ELSE t
       IN IF u = <<>> \/ ~IsDigit(u[1]) THEN NaN
          ELSE IF neg THEN Num(0 - DigitsValue(u, 0)) ELSE Num(DigitsValue(u, 0))

\* lastNumber + 1
PlusOne(n) == IF n.nan THEN NaN ELSE Num(n.val + 1)

RECURSIVE NatToString(_)
NatToString(n) ==
  IF n < 10 THEN <<Digits[n + 1]>>
  ELSE NatToString(n \div 10) \o <<Digits[(n % 10) + 1]>>

\* Number.prototype.toString()
NumToString(n) ==
  IF n.nan THEN <<"N", "a", "N">>
  ELSE IF n.val < 0 THEN <<"-">> \o NatToString(0 - n.val)
  ELSE NatToString(n.val)

\* String.prototype.padStart(width, '0')
RECURSIVE PadStart(_, _)
PadStart(s, width) == IF Len(s) >= width THEN s ELSE PadStart(<<"0">> \o s, width)

\* String.prototype.toUpperCase() on one character
ToUpperCase(c) ==
  IF \E i \in 1..26 : Lower[i] = c THEN Upper[IndexOf(Lower, c)] ELSE c

\* type.charAt(0).toUpperCase()
TypePrefix(type) == IF type = <<>> THEN <<>> ELSE <<ToUpperCase(type[1])>>

(***************************************************************************)
(* Identifier generation (server/storage.ts).                              *)
(***************************************************************************)
\* the text column values the requests of the model supply
Str_MEM_ == <<"M", "E", "M", "_">>

MEM_001 == Str_MEM_ \o <<"0", "0", "1">>

MEM_999 == Str_MEM_ \o <<"9", "9", "9">>

MEM == <<"M", "E", "M">>

L24007 == <<"L", "2", "4", "0", "0", "7">>

P24001 == <<"P", "2", "4", "0", "0", "1">>

payment == <<"p", "a", "y", "m", "e", "n", "t">>

receipt == <<"r", "e", "c", "e", "i", "p", "t">>

\* voucherTypeEnum, restricted to two of its six values
VoucherTypes == {payment, receipt}

\* .orderBy(desc(col)).limit(1) over the selected identifiers: the greatest
\* one, or no row
LastOf(nos) ==
  IF nos = {} THEN <<>>
  ELSE <<CHOOSE n \in nos : \A o \in nos : o = n \/ StrLess(o, n)>>

\* select memNo from members order by memNo desc limit 1
LastMember(rows) == LastOf({r.memNo : r \in rows})

\* select loanNo from loans order by loanNo desc limit 1
LastLoan(rows) == LastOf({r.loanNo : r \in rows})

\* select voucherNo from vouchers where voucherType = type
\* order by voucherNo desc limit 1
LastVoucherAll(rows, type) == LastOf({r.voucherNo : r \in rows})

LastVoucher(rows, type) ==
  LastOf({r.voucherNo : r \in {v \in rows : v.voucherType = type}})

\* currentYear.toString().slice(-2)
YearSuffix(currentYear) == SliceLast(NumToString(Num(currentYear)), 2)

GenerateMemberNumberSlice(lastMember) ==
  IF Len(lastMember) = 0 THEN MEM_001
  ELSE Str_MEM_ \o PadStart(NumToString(PlusOne(ParseInt(Slice(lastMember[1], 3)))), 3)

\* DatabaseStorage.generateMemberNumber, after its query
GenerateMemberNumber(lastMember) ==
  IF Len(lastMember) = 0 THEN MEM_001
  ELSE LET lastNumber == ParseInt(At(Split(lastMember[1], "_"), 1))
           nextNumber == PlusOne(lastNumber)
       IN Str_MEM_ \o PadStart(NumToString(nextNumber), 3)

GenerateLoanNumberSlice2(lastLoan, currentYear) ==
  LET yearSuffix == YearSuffix(currentYear)
  IN IF Len(lastLoan) = 0 THEN <<"L">> \o yearSuffix \o <<"0", "0", "1">>
     ELSE <<"L">> \o yearSuffix
            \o PadStart(NumToString(PlusOne(ParseInt(Slice(lastLoan[1], 2)))), 3)

GenerateLoanNumberPerYear(lastLoan, currentYear) ==
  LET yearSuffix == YearSuffix(currentYear)
  IN IF Len(lastLoan) = 0 \/ SubSeq(lastLoan[1], 2, 3) # yearSuffix
     THEN <<"L">> \o yearSuffix \o <<"0", "0", "1">>
     ELSE <<"L">> \o yearSuffix
            \o PadStart(NumToString(PlusOne(ParseInt(Slice(lastLoan[1], 3)))), 3)

\* DatabaseStorage.generateLoanNumber, after its query
GenerateLoanNumber(lastLoan, currentYear) ==
  LET yearSuffix == YearSuffix(currentYear)
  IN IF Len(lastLoan) = 0 THEN <<"L">> \o yearSuffix \o <<"0", "0", "1">>
     ELSE LET lastNumber == ParseInt(Slice(lastLoan[1], 3))
              nextNumber == PlusOne(lastNumber)
          IN <<"L">> \o yearSuffix \o PadStart(NumToString(nextNumber), 3)

\* DatabaseStorage.generateVoucherNumber, after its query
GenerateVoucherNumber(type, lastVoucher, currentYear) ==
  LET typePrefix == TypePrefix(type)
      yearSuffix == YearSuffix(currentYear)
  IN IF Len(lastVoucher) = 0 THEN typePrefix \o yearSuffix \o <<"0", "0", "1">>
     ELSE LET lastNumber == ParseInt(Slice(lastVoucher[1], 3))
              nextNumber == PlusOne(lastNumber)
          IN typePrefix \o yearSuffix \o PadStart(NumToString(nextNumber), 3)

\* the unique constraint of an identifier column: the insert is refused when
\* a row of the table already carries the identifier
UniqueViolationNever(nos, no) == FALSE

UniqueViolation(nos, no) == no \in nos

(***************************************************************************)
(* Loan amounts (server/routes.ts, server/storage.ts).  Amounts are whole  *)
(* numbers; in a request body they are decimal text.                       *)
(***************************************************************************)
\* parseFloat(x) on text that has no ".", no exponent and no "Infinity":
\* what parseInt reads
ParseFloat(x) == ParseInt(x)

\* (loanData.previousLoan || 0).toString()
PreviousLoanOrZero(previousLoan) ==
  IF previousLoan = Undefined \/ previousLoan = <<>> THEN <<"0">> ELSE previousLoan

\* a - b on numbers
Minus(a, b) == IF a.nan \/ b.nan THEN NaN ELSE Num(a.val - b.val)

AutoCalculateNetLoanKeep(loanData) == loanData.netLoan

\* POST /api/loans: "Auto-calculate net loan"
AutoCalculateNetLoan(loanData) ==
  NumToString(Minus(ParseFloat(loanData.loanAmount),
                    ParseFloat(PreviousLoanOrZero(loanData.previousLoan))))

\* calculateNetLoan(loanAmount, previousLoan = 0), on numbers: a call without
\* previousLoan is the call with 0
calculateNetLoan(loanAmount, previousLoan) == loanAmount - previousLoan

\* a number that is a fraction in lowest terms: a double holds it exactly
\* when den = 1, and holds the nearest double otherwise
Whole(k) == [num |-> k, den |-> 1]

Abs(k) == IF k < 0 THEN 0 - k ELSE k

RECURSIVE GCD(_, _)
GCD(a, b) == IF b = 0 THEN a ELSE GCD(b, a % b)

\* a / b for b > 0
Divide(a, b) ==
  LET g == GCD(Abs(a), b) IN [num |-> a \div g, den |-> b \div g]

calculateInstallmentAmountTruncated(netLoan, numberOfInstallments) ==
  IF numberOfInstallments > 0 THEN Whole(netLoan \div numberOfInstallments)
  ELSE Whole(0)

\* calculateInstallmentAmount(netLoan, numberOfInstallments)
calculateInstallmentAmount(netLoan, numberOfInstallments) ==
  IF numberOfInstallments > 0 THEN Divide(netLoan, numberOfInstallments)
  ELSE Whole(0)

\* the value a decimal column takes from the text of an insert; the column
\* default when the insert has no value
DecimalColumn(text, default) ==
  IF text = Undefined THEN default ELSE ParseInt(text).val

(***************************************************************************)
(* State: the three tables, the clock, and the requests in flight.         *)
(***************************************************************************)
VARIABLES
  members,      \* rows of the members table: [id, memNo]
  loans,        \* rows of the loans table: [id, loanNo]
  vouchers,     \* rows of the vouchers table: [id, voucherNo, voucherType, entries,
                \* totalDebit, totalCredit]
  nextId,       \* number of rows inserted so far (ids are never reused)
  year,         \* new Date().getFullYear()
  pc,           \* per request slot: "idle" or the storage call awaiting its insert
  req,          \* per request slot: the insert object of the handler
  last,         \* per request slot: the result of the "last identifier" query
  res,          \* the response sent last
  issued,       \* history: the greatest suffix generated and persisted so far,
                \* per sequence
  entries,      \* voucher form: the entries added so far
  currentEntry, \* voucher form: the entry being typed
  calc,         \* the last call of calculateInstallmentAmount and its result
  loanForm,     \* loan entry form: the values of its amount fields
  users,        \* rows of the users table, by id: [role, isActive]
  tokens,       \* per account: the role in the token its client holds
  societies,    \* rows of the societies table, by id: [exists, adminUserId, name]
  pendingEdits, \* rows of the pending_edits table, by age:
                \* [requestedBy, status, reviewedBy, reviewedAt]
  areq,         \* per connection: the request between its middlewares
  ares,         \* the response of the middleware chain sent last
  selectedVoucher, \* voucher form: the id of the voucher being edited, or "null"
  submit,       \* voucher form: what the last handleSubmit did
  provider,     \* AuthProvider: [user, token, isLoading, toast]
  localStorage, \* the browser's storage: [fintcs_token, fintcs_user]
  inflight      \* AuthProvider: the login and logout calls awaiting the API

vars == <<members, loans, vouchers, nextId, year, pc, req, last, res, issued,
          entries, currentEntry, calc, loanForm,
          users, tokens, societies, pendingEdits, areq, ares,
          selectedVoucher, submit, provider, localStorage, inflight>>

serverVars == <<members, loans, vouchers, nextId, year, pc, req, last, res, issued>>

formVars == <<entries, currentEntry>>

authVars == <<users, tokens, societies, pendingEdits, areq, ares>>

submitVars == <<selectedVoucher, submit>>

clientVars == <<provider, localStorage, inflight>>

extVars == <<calc, loanForm, authVars, submitVars, clientVars>>

nonAuthVars == <<serverVars, formVars, calc, loanForm, submitVars, clientVars>>

Procs == 1..NumProcs

FirstYear == 2024

Entry(d, c) == [debit |-> d, credit |-> c]

\* the amounts of a loan body: [loanAmount, previousLoan, netLoan]
NoLoanData == [loanAmount |-> <<"0">>, previousLoan |-> Undefined, netLoan |-> <<"0">>]

\* the totals of a voucher body: [totalDebit, totalCredit]
NoTotals == [totalDebit |-> Undefined, totalCredit |-> Undefined]

NoReq == [no |-> <<>>, type |-> <<>>, entries |-> <<>>, auto |-> FALSE,
          loan |-> NoLoanData, totals |-> NoTotals]

NoLast == [rows |-> <<>>, year |-> 0]

NoRes == [status |-> 0, kind |-> "none", auto |-> FALSE]

InFlight == Cardinality({p \in Procs : pc[p] # "idle"})

\* a request is taken while the tables of the model have room for its row
Room == nextId + InFlight < MaxRows

\* the numeric suffix the generators read back from an identifier
MemberSuffix(no) == ParseInt(At(Split(no, "_"), 1))

SerialSuffix(no) == ParseInt(Slice(no, 3))

Max(a, b) == IF a >= b THEN a ELSE b

Bump(old, auto, suffix) ==
  IF auto /\ ~suffix.nan THEN Max(old, suffix.val) ELSE old

(***************************************************************************)
(* Accounts, societies and the requests passing the middlewares            *)
(* authenticateToken and requireRole (server/middleware/auth.ts).          *)
(***************************************************************************)
\* the account seeded at startup and one more account
UserIds == {"admin", "u2"}

SocietyIds == {"s1", "s2"}

Connections == {"a", "b"}

\* userRoleEnum, restricted to three of its four values
Roles == {"super_admin", "society_admin", "user"}

\* no row of that id: never inserted, or deleted
NoUser == [role |-> "none", isActive |-> FALSE]

Gone == [role |-> "gone", isActive |-> FALSE]

NoRow(user) == user.role \in {"none", "gone"}

\* seedSuperAdmin
SeedSuperAdmin == [role |-> "super_admin", isActive |-> TRUE]

NoSociety == [exists |-> FALSE, adminUserId |-> "null", name |-> ""]

NoDecoded == [id |-> "none", role |-> "none"]

IdleReq == [pc |-> "idle", route |-> "none", decoded |-> NoDecoded, user |-> NoUser]

NoAuthRes == [status |-> 0, handled |-> FALSE, token |-> "none", id |-> "none",
              tokenRole |-> "none", role |-> "none"]

\* no handleSubmit yet
NoRequest == [method |-> "none", id |-> "null", totalDebit |-> <<>>, totalCredit |-> <<>>]

NoSubmit == [toast |-> FALSE, request |-> NoRequest]

\* defaultValues of the loan entry form for a new loan, after the effects
\* of the first render
\* the AuthProvider after its first render and effect, nothing being stored
NoSession == [user |-> "null", token |-> "null", isLoading |-> FALSE, toast |-> "none"]

NoStoredAuth == [fintcs_token |-> "null", fintcs_user |-> "null"]

NoCalls == [login |-> "idle", logout |-> "idle", console |-> "none"]

LoanFormDefaults ==
  [loanAmount |-> 0, previousLoan |-> 0, netLoan |-> 0,
   numberOfInstallments |-> 1, installmentAmount |-> Whole(0)]

Init ==
  /\ members = {}
  /\ loans = {}
  /\ vouchers = {}
  /\ nextId = 0
  /\ year = FirstYear
  /\ pc = [p \in Procs |-> "idle"]
  /\ req = [p \in Procs |-> NoReq]
  /\ last = [p \in Procs |-> NoLast]
  /\ res = NoRes
  /\ issued = [member |-> 0, loan |-> 0, voucher |-> [t \in VoucherTypes |-> 0]]
  /\ entries = <<>>
  /\ currentEntry = [particulars |-> "", debit |-> 0, credit |-> 0,
                     type |-> "debit", amount |-> 0]
  /\ calc = [called |-> FALSE, netLoan |-> 0, numberOfInstallments |-> 0,
             result |-> Whole(0)]
  /\ loanForm = LoanFormDefaults
  /\ users = [u \in UserIds |-> IF u = "admin" THEN SeedSuperAdmin ELSE NoUser]
  /\ tokens = [u \in UserIds |-> "none"]
  /\ societies = [sid \in SocietyIds |-> NoSociety]
  /\ pendingEdits = <<>>
  /\ areq = [c \in Connections |-> IdleReq]
  /\ ares = NoAuthRes
  /\ selectedVoucher = "null"
  /\ submit = NoSubmit
  /\ provider = NoSession
  /\ localStorage = NoStoredAuth
  /\ inflight = NoCalls

(***************************************************************************)
(* POST /api/members -> storage.createMember                               *)
(***************************************************************************)
\* the handler up to the insert: parse the body, and generate the number
\* when the body carries none
PostMembers(p, memNo) ==
  /\ pc[p] = "idle"
  /\ Room
  /\ LET lastMember == LastMember(members)
       IN IF memNo = <<>>
          THEN /\ req' = [req EXCEPT ![p] = [NoReq EXCEPT
                            !.no = GenerateMemberNumber(lastMember), !.auto = TRUE]]
               /\ last' = [last EXCEPT ![p] = [rows |-> lastMember, year |-> year]]
          ELSE /\ req' = [req EXCEPT ![p] = [NoReq EXCEPT !.no = memNo]]
               /\ last' = [last EXCEPT ![p] = NoLast]
  /\ pc' = [pc EXCEPT ![p] = "createMember"]
  /\ UNCHANGED <<members, loans, vouchers, nextId, year, res, issued, formVars, extVars>>

\* db.insert(members), and the response: 201, or 500 from the catch
CreateMemberInsert(p) ==
  /\ pc[p] = "createMember"
  /\ IF UniqueViolation({r.memNo : r \in members}, req[p].no)
     THEN /\ res' = [status |-> 500, kind |-> "member", auto |-> req[p].auto]
          /\ UNCHANGED <<members, nextId, issued>>
     ELSE /\ members' = members \cup {[id |-> nextId + 1, memNo |-> req[p].no]}
          /\ nextId' = nextId + 1
          /\ issued' = [issued EXCEPT !.member =
                          Bump(@, req[p].auto, MemberSuffix(req[p].no))]
          /\ res' = [status |-> 201, kind |-> "member", auto |-> req[p].auto]
  /\ pc' = [pc EXCEPT ![p] = "idle"]
  /\ req' = [req EXCEPT ![p] = NoReq]
  /\ last' = [last EXCEPT ![p] = NoLast]
  /\ UNCHANGED <<loans, vouchers, year, formVars, extVars>>

\* PUT /api/members/:id -> storage.updateMember: the body is passed to
\* db.update(members).set unparsed; memNo is Undefined when the body has no
\* such key (the other columns of the row are not in the model)
PutMembers(id, memNo) ==
  /\ IF memNo # Undefined
        /\ UniqueViolation({r.memNo : r \in {m \in members : m.id # id}}, memNo)
        /\ \E r \in members : r.id = id
     THEN /\ res' = [status |-> 500, kind |-> "member", auto |-> FALSE]
          /\ UNCHANGED members
     ELSE /\ members' = {IF r.id = id /\ memNo # Undefined
                            THEN [r EXCEPT !.memNo = memNo] ELSE r : r \in members}
          /\ res' = [status |-> 200, kind |-> "member", auto |-> FALSE]
  /\ UNCHANGED <<loans, vouchers, nextId, year, pc, req, last, issued, formVars, extVars>>

\* DatabaseStorage.deleteMember
DeleteMember(id) ==
  /\ \E r \in members : r.id = id
  /\ members' = {r \in members : r.id # id}
  /\ UNCHANGED <<loans, vouchers, nextId, year, pc, req, last, res, issued, formVars, extVars>>

(***************************************************************************)
(* POST /api/loans -> storage.createLoan                                   *)
(***************************************************************************)
\* the handler with the standalone generateLoanNumber(year) of storage.ts,
\* which ends the number with the last digits of the clock
PostLoansTimestamp(p, loanNo, loanData) ==
  /\ pc[p] = "idle"
  /\ Room
  /\ \E timestamp \in {<<"0", "0", "1">>, <<"0", "0", "2">>} :
       LET lastLoan == LastLoan(loans)
           body == [NoReq EXCEPT
                      !.loan = [loanData EXCEPT !.netLoan = AutoCalculateNetLoan(loanData)]]
       IN IF loanNo = <<>>
          THEN /\ req' = [req EXCEPT ![p] = [body EXCEPT
                            !.no = <<"L">> \o YearSuffix(year) \o timestamp,
                            !.auto = TRUE]]
               /\ last' = [last EXCEPT ![p] = [rows |-> lastLoan, year |-> year]]
          ELSE /\ req' = [req EXCEPT ![p] = [body EXCEPT !.no = loanNo]]
               /\ last' = [last EXCEPT ![p] = NoLast]
  /\ pc' = [pc EXCEPT ![p] = "createLoan"]
  /\ UNCHANGED <<members, loans, vouchers, nextId, year, res, issued, formVars, extVars>>

\* the handler up to the insert: parse the body, overwrite its netLoan, and
\* generate the number when the body carries none
PostLoans(p, loanNo, loanData) ==
  /\ pc[p] = "idle"
  /\ Room
  /\ LET lastLoan == LastLoan(loans)
           body == [NoReq EXCEPT
                      !.loan = [loanData EXCEPT !.netLoan = AutoCalculateNetLoan(loanData)]]
       IN IF loanNo = <<>>
          THEN /\ req' = [req EXCEPT ![p] = [body EXCEPT
                            !.no = GenerateLoanNumber(lastLoan, year), !.auto = TRUE]]
               /\ last' = [last EXCEPT ![p] = [rows |-> lastLoan, year |-> year]]
          ELSE /\ req' = [req EXCEPT ![p] = [body EXCEPT !.no = loanNo]]
               /\ last' = [last EXCEPT ![p] = NoLast]
  /\ pc' = [pc EXCEPT ![p] = "createLoan"]
  /\ UNCHANGED <<members, loans, vouchers, nextId, year, res, issued, formVars, extVars>>

CreateLoanInsert(p) ==
  /\ pc[p] = "createLoan"
  /\ IF UniqueViolation({r.loanNo : r \in loans}, req[p].no)
     THEN /\ res' = [status |-> 500, kind |-> "loan", auto |-> req[p].auto]
          /\ UNCHANGED <<loans, nextId, issued>>
     ELSE /\ loans' = loans \cup
                {[id |-> nextId + 1, loanNo |-> req[p].no,
                  loanAmount |-> DecimalColumn(req[p].loan.loanAmount, 0),
                  previousLoan |-> DecimalColumn(req[p].loan.previousLoan, 0),
                  netLoan |-> DecimalColumn(req[p].loan.netLoan, 0)]}
          /\ nextId' = nextId + 1
          /\ issued' = [issued EXCEPT !.loan =
                          Bump(@, req[p].auto, SerialSuffix(req[p].no))]
          /\ res' = [status |-> 201, kind |-> "loan", auto |-> req[p].auto]
  /\ pc' = [pc EXCEPT ![p] = "idle"]
  /\ req' = [req EXCEPT ![p] = NoReq]
  /\ last' = [last EXCEPT ![p] = NoLast]
  /\ UNCHANGED <<members, vouchers, year, formVars, extVars>>

\* DatabaseStorage.deleteLoan
DeleteLoan(id) ==
  /\ \E r \in loans : r.id = id
  /\ loans' = {r \in loans : r.id # id}
  /\ UNCHANGED <<members, vouchers, nextId, year, pc, req, last, res, issued, formVars, extVars>>

(***************************************************************************)
(* POST /api/vouchers -> storage.createVoucher                             *)
(***************************************************************************)
PostVouchers(p, voucherNo, type, es, totals) ==
  /\ pc[p] = "idle"
  /\ Room
  /\ LET lastVoucher == LastVoucher(vouchers, type)
           body == [NoReq EXCEPT !.type = type, !.entries = es, !.totals = totals]
       IN IF voucherNo = <<>>
          THEN /\ req' = [req EXCEPT ![p] = [body EXCEPT
                            !.no = GenerateVoucherNumber(type, lastVoucher, year),
                            !.auto = TRUE]]
               /\ last' = [last EXCEPT ![p] = [rows |-> lastVoucher, year |-> year]]
          ELSE /\ req' = [req EXCEPT ![p] = [body EXCEPT !.no = voucherNo]]
               /\ last' = [last EXCEPT ![p] = NoLast]
  /\ pc' = [pc EXCEPT ![p] = "createVoucher"]
  /\ UNCHANGED <<members, loans, vouchers, nextId, year, res, issued, formVars, extVars>>

CreateVoucherInsert(p) ==
  /\ pc[p] = "createVoucher"
  /\ IF UniqueViolation({r.voucherNo : r \in vouchers}, req[p].no)
     THEN /\ res' = [status |-> 500, kind |-> "voucher", auto |-> req[p].auto]
          /\ UNCHANGED <<vouchers, nextId, issued>>
     ELSE /\ vouchers' = vouchers \cup
                {[id |-> nextId + 1, voucherNo |-> req[p].no,
                  voucherType |-> req[p].type, entries |-> req[p].entries,
                  totalDebit |-> DecimalColumn(req[p].totals.totalDebit, 0),
                  totalCredit |-> DecimalColumn(req[p].totals.totalCredit, 0)]}
          /\ nextId' = nextId + 1
          /\ issued' = [issued EXCEPT !.voucher[req[p].type] =
                          Bump(@, req[p].auto, SerialSuffix(req[p].no))]
          /\ res' = [status |-> 201, kind |-> "voucher", auto |-> req[p].auto]
  /\ pc' = [pc EXCEPT ![p] = "idle"]
  /\ req' = [req EXCEPT ![p] = NoReq]
  /\ last' = [last EXCEPT ![p] = NoLast]
  /\ UNCHANGED <<members, loans, year, formVars, extVars>>

\* DatabaseStorage.deleteVoucher
DeleteVoucher(id) ==
  /\ \E r \in vouchers : r.id = id
  /\ vouchers' = {r \in vouchers : r.id # id}
  /\ UNCHANGED <<members, loans, nextId, year, pc, req, last, res, issued, formVars, extVars>>

\* the calendar year advances
NewYear ==
  /\ year < LastYear
  /\ year' = year + 1
  /\ UNCHANGED <<members, loans, vouchers, nextId, pc, req, last, res, issued, formVars, extVars>>

\* the bodies of the requests of the model
BalancedEntries == <<Entry(1, 0), Entry(0, 1)>>

UnbalancedEntries == <<Entry(2, 0), Entry(0, 1)>>

EntryLists == {BalancedEntries, UnbalancedEntries}

\* the totals the voucher form sends with these entries
BalancedTotals == [totalDebit |-> <<"1">>, totalCredit |-> <<"1">>]

UnbalancedTotals == [totalDebit |-> <<"2">>, totalCredit |-> <<"1">>]

TotalsOf(es) == IF es = BalancedEntries THEN BalancedTotals ELSE UnbalancedTotals

MemNos == {<<>>, MEM_999, MEM}

LoanNos == {<<>>, L24007}

VoucherNos == {<<>>, P24001}

\* concurrent auto-numbered creates of the three kinds of record, and deletes
Next ==
  \/ \E p \in Procs : PostMembers(p, <<>>)
  \/ \E p \in Procs : CreateMemberInsert(p)
  \/ \E id \in 1..MaxRows : DeleteMember(id)
  \/ \E p \in Procs : PostLoans(p, <<>>, NoLoanData)
  \/ \E p \in Procs : CreateLoanInsert(p)
  \/ \E id \in 1..MaxRows : DeleteLoan(id)
  \/ \E p \in Procs, type \in VoucherTypes : PostVouchers(p, <<>>, type, BalancedEntries, BalancedTotals)
  \/ \E p \in Procs : CreateVoucherInsert(p)
  \/ \E id \in 1..MaxRows : DeleteVoucher(id)
  \/ NewYear

Spec == Init /\ [][Next]_vars

\* members, created with and without a number of the caller
NextMembers ==
  \/ \E p \in Procs, memNo \in MemNos : PostMembers(p, memNo)
  \/ \E p \in Procs : CreateMemberInsert(p)
  \/ \E id \in 1..MaxRows : DeleteMember(id)

SpecMembers == Init /\ [][NextMembers]_vars

\* members created, updated and deleted
NextMemberUpdates ==
  \/ \E p \in Procs : PostMembers(p, <<>>)
  \/ \E p \in Procs : CreateMemberInsert(p)
  \/ \E id \in 1..MaxRows, memNo \in {Undefined, MEM_999} : PutMembers(id, memNo)
  \/ \E id \in 1..MaxRows : DeleteMember(id)

SpecMemberUpdates == Init /\ [][NextMemberUpdates]_vars

\* loans, created with and without a number of the caller, over the years
NextLoans ==
  \/ \E p \in Procs, loanNo \in LoanNos : PostLoans(p, loanNo, NoLoanData)
  \/ \E p \in Procs : CreateLoanInsert(p)
  \/ \E id \in 1..MaxRows : DeleteLoan(id)
  \/ NewYear

SpecLoans == Init /\ [][NextLoans]_vars

\* loans of several amounts, with and without a previous loan
LoanAmounts == {<<"3">>, <<"1", "0">>}

PreviousLoans == {Undefined, <<"0">>, <<"4">>}

NetLoans == {<<"0">>, <<"7">>}

LoanBodies ==
  [loanAmount : LoanAmounts, previousLoan : PreviousLoans, netLoan : NetLoans]

NextLoanAmounts ==
  \/ \E p \in Procs, loanData \in LoanBodies : PostLoans(p, <<>>, loanData)
  \/ \E p \in Procs : CreateLoanInsert(p)
  \/ \E id \in 1..MaxRows : DeleteLoan(id)

SpecLoanAmounts == Init /\ [][NextLoanAmounts]_vars

\* vouchers of two types, created with and without a number of the caller
NextVouchers ==
  \/ \E p \in Procs, voucherNo \in VoucherNos, type \in VoucherTypes :
       PostVouchers(p, voucherNo, type, BalancedEntries, BalancedTotals)
  \/ \E p \in Procs : CreateVoucherInsert(p)
  \/ \E id \in 1..MaxRows : DeleteVoucher(id)
  \/ NewYear

SpecVouchers == Init /\ [][NextVouchers]_vars

\* vouchers with balanced and unbalanced entries
NextVoucherEntries ==
  \/ \E p \in Procs, type \in VoucherTypes, es \in EntryLists :
       PostVouchers(p, <<>>, type, es, TotalsOf(es))
  \/ \E p \in Procs : CreateVoucherInsert(p)
  \/ \E id \in 1..MaxRows : DeleteVoucher(id)

SpecVoucherEntries == Init /\ [][NextVoucherEntries]_vars

\* bodies of POST /api/vouchers with the totals of their entries, with other
\* totals, and with none
NextVoucherTotals ==
  \/ \E p \in Procs, type \in VoucherTypes,
          totals \in {BalancedTotals, UnbalancedTotals, NoTotals} :
       PostVouchers(p, <<>>, type, BalancedEntries, totals)
  \/ \E p \in Procs : CreateVoucherInsert(p)
  \/ \E id \in 1..MaxRows : DeleteVoucher(id)

SpecVoucherTotals == Init /\ [][NextVoucherTotals]_vars

\* a call of calculateInstallmentAmount
NetLoanValues == (0 - MaxNetLoan)..MaxNetLoan

InstallmentCounts == (0 - 2)..MaxInstallments

Calculate(netLoan, numberOfInstallments) ==
  /\ calc' = [called |-> TRUE, netLoan |-> netLoan,
              numberOfInstallments |-> numberOfInstallments,
              result |-> calculateInstallmentAmount(netLoan, numberOfInstallments)]
  /\ UNCHANGED <<serverVars, formVars, loanForm, authVars, clientVars, submitVars>>

NextCalculate ==
  \E netLoan \in NetLoanValues, numberOfInstallments \in InstallmentCounts :
    Calculate(netLoan, numberOfInstallments)

SpecCalculate == Init /\ [][NextCalculate]_vars

(***************************************************************************)
(* Login, the middleware chain, and the handlers of the routes on users,   *)
(* societies and pending edits (server/routes.ts).                         *)
(***************************************************************************)
\* the roles of the requireRole middleware of a route; the route of the
\* pending edits has authenticateToken only
RequireRoleOf(route) ==
  CASE route = "POST /api/users" -> {"super_admin"}
    [] route = "PUT /api/users/:id" -> {"super_admin"}
    [] route = "DELETE /api/users/:id" -> {"super_admin"}
    [] route = "POST /api/societies" -> {"super_admin"}
    [] route = "PUT /api/societies/:id" -> {"super_admin", "society_admin"}
    [] route = "PUT /api/pending-edits/:id/approve" -> {"super_admin"}
    [] route = "PUT /api/pending-edits/:id/reject" -> {"super_admin"}

HasRequireRole(route) == route # "POST /api/pending-edits"

\* POST /api/auth/login with the password of the account: generateToken
Login(u) ==
  /\ ~NoRow(users[u])
  /\ users[u].isActive
  /\ tokens' = [tokens EXCEPT ![u] = users[u].role]
  /\ UNCHANGED <<users, societies, pendingEdits, areq, ares, nonAuthVars>>

\* a token of an account issued more than 24 hours ago (expiresIn)
Expired == {"expired admin", "expired u2"}

Owner(token) == IF token = "expired admin" THEN "admin" ELSE "u2"

\* authenticateToken up to its await: the header and verifyToken.  The
\* request carries no token, a token that does not verify (forged, or
\* issued to an account and expired since), or the token held by the
\* client of an account
authenticateToken(c, route, token) ==
  /\ areq[c].pc = "idle"
  /\ IF token = "missing"
     THEN /\ ares' = [NoAuthRes EXCEPT !.status = 401, !.token = "missing"]
          /\ UNCHANGED areq
     ELSE IF token = "invalid"
     THEN /\ ares' = [NoAuthRes EXCEPT !.status = 403, !.token = "invalid"]
          /\ UNCHANGED areq
     ELSE IF token \in Expired
     THEN /\ tokens[Owner(token)] # "none"
          /\ ares' = [NoAuthRes EXCEPT !.status = 403, !.token = "expired",
                                       !.id = Owner(token)]
          /\ UNCHANGED areq
     ELSE /\ tokens[token] # "none"
          /\ areq' = [areq EXCEPT ![c] =
                        [IdleReq EXCEPT !.pc = "getUser", !.route = route,
                                        !.decoded = [id |-> token, role |-> tokens[token]]]]
          /\ UNCHANGED ares
  /\ UNCHANGED <<users, tokens, societies, pendingEdits, nonAuthVars>>

\* storage.getUser(decoded.id)
GetUser(c) ==
  /\ areq[c].pc = "getUser"
  /\ areq' = [areq EXCEPT ![c].pc = "next",
                          ![c].user = IF NoRow(users[areq[c].decoded.id]) THEN NoUser
                                      ELSE users[areq[c].decoded.id]]
  /\ UNCHANGED <<users, tokens, societies, pendingEdits, ares, nonAuthVars>>

AuthenticateUserInactiveToo(r) == IF NoRow(r.user) THEN 401 ELSE 0

\* authenticateToken after its await: 401, or 0 for next()
AuthenticateUser(r) == IF NoRow(r.user) \/ ~r.user.isActive THEN 401 ELSE 0

RequireRoleOfToken(roles, r) ==
  IF NoRow(r.user) THEN 401 ELSE IF r.decoded.role \notin roles THEN 403 ELSE 0

\* requireRole(roles): 401, 403, or 0 for next()
RequireRole(roles, r) ==
  IF NoRow(r.user) THEN 401 ELSE IF r.user.role \notin roles THEN 403 ELSE 0

\* the status the middlewares of the route answer, or 0 when the handler runs
Middlewares(r) ==
  IF AuthenticateUser(r) # 0 THEN AuthenticateUser(r)
  ELSE IF HasRequireRole(r.route) THEN RequireRole(RequireRoleOf(r.route), r)
  ELSE 0

\* the response, by a middleware or by the handler
Respond(c, status, handled) ==
  /\ areq' = [areq EXCEPT ![c] = IdleReq]
  /\ ares' = [status |-> status, handled |-> handled, token |-> "valid",
              id |-> areq[c].decoded.id,
              tokenRole |-> areq[c].decoded.role, role |-> areq[c].user.role]

AtRoute(c, route) == areq[c].pc = "next" /\ areq[c].route = route

\* {...row, ...body}
Spread(row, body) ==
  [k \in DOMAIN row |-> IF k \in DOMAIN body THEN body[k] ELSE row[k]]

\* POST /api/users -> storage.createUser; usernames are unique
PostUsers(c, id, role) ==
  /\ AtRoute(c, "POST /api/users")
  /\ users[id] # Gone
  /\ IF Middlewares(areq[c]) # 0
     THEN Respond(c, Middlewares(areq[c]), FALSE) /\ UNCHANGED users
     ELSE IF ~NoRow(users[id])
     THEN Respond(c, 500, TRUE) /\ UNCHANGED users
     ELSE /\ users' = [users EXCEPT ![id] = [role |-> role, isActive |-> TRUE]]
          /\ Respond(c, 201, TRUE)
  /\ UNCHANGED <<tokens, societies, pendingEdits, nonAuthVars>>

\* PUT /api/users/:id -> storage.updateUser; without a row the handler
\* destructures undefined and answers 500
PutUsers(c, id, body) ==
  /\ AtRoute(c, "PUT /api/users/:id")
  /\ IF Middlewares(areq[c]) # 0
     THEN Respond(c, Middlewares(areq[c]), FALSE) /\ UNCHANGED users
     ELSE IF NoRow(users[id])
     THEN Respond(c, 500, TRUE) /\ UNCHANGED users
     ELSE /\ users' = [users EXCEPT ![id] = Spread(@, body)]
          /\ Respond(c, 200, TRUE)
  /\ UNCHANGED <<tokens, societies, pendingEdits, nonAuthVars>>

\* a row of another table refers to the user
Referenced(id) ==
  \/ \E sid \in SocietyIds : societies[sid].exists /\ societies[sid].adminUserId = id
  \/ \E i \in 1..Len(pendingEdits) :
       pendingEdits[i].requestedBy = id \/ pendingEdits[i].reviewedBy = id

\* DELETE /api/users/:id -> storage.deleteUser
DeleteUsers(c, id) ==
  /\ AtRoute(c, "DELETE /api/users/:id")
  /\ IF Middlewares(areq[c]) # 0
     THEN Respond(c, Middlewares(areq[c]), FALSE) /\ UNCHANGED users
     ELSE IF Referenced(id)
     THEN Respond(c, 500, TRUE) /\ UNCHANGED users
     ELSE /\ users' = [users EXCEPT ![id] = IF NoRow(@) THEN @ ELSE Gone]
          /\ Respond(c, 200, TRUE)
  /\ UNCHANGED <<tokens, societies, pendingEdits, nonAuthVars>>

\* POST /api/societies -> storage.createSociety
PostSocieties(c, sid, adminUserId) ==
  /\ AtRoute(c, "POST /api/societies")
  /\ ~societies[sid].exists
  /\ IF Middlewares(areq[c]) # 0
     THEN Respond(c, Middlewares(areq[c]), FALSE) /\ UNCHANGED societies
     ELSE IF adminUserId # "null" /\ NoRow(users[adminUserId])
     THEN Respond(c, 500, TRUE) /\ UNCHANGED societies
     ELSE /\ societies' = [societies EXCEPT ![sid] =
                             [exists |-> TRUE, adminUserId |-> adminUserId, name |-> "a"]]
          /\ Respond(c, 201, TRUE)
  /\ UNCHANGED <<users, tokens, pendingEdits, nonAuthVars>>

\* PUT /api/societies/:id -> storage.updateSociety
PutSocieties(c, sid, body) ==
  /\ AtRoute(c, "PUT /api/societies/:id")
  /\ IF Middlewares(areq[c]) # 0
     THEN Respond(c, Middlewares(areq[c]), FALSE) /\ UNCHANGED societies
     ELSE /\ societies' = [societies EXCEPT ![sid] =
                             IF @.exists THEN Spread(@, body) ELSE @]
          /\ Respond(c, 200, TRUE)
  /\ UNCHANGED <<users, tokens, pendingEdits, nonAuthVars>>

\* the row inserted for the parsed body: insertPendingEditSchema omits id
\* and createdAt only, so the status of the body is kept and the column
\* default 'pending' is used without one; reviewedAt 0 stands for null
InsertPendingEdit(editData) ==
  [requestedBy |-> editData.requestedBy,
   status |-> IF "status" \in DOMAIN editData THEN editData.status ELSE "pending",
   reviewedBy |-> "null", reviewedAt |-> 0]

\* POST /api/pending-edits -> storage.createPendingEdit, requestedBy being
\* req.user.id
PostPendingEdits(c, body) ==
  /\ AtRoute(c, "POST /api/pending-edits")
  /\ Len(pendingEdits) < MaxEdits
  /\ IF Middlewares(areq[c]) # 0
     THEN Respond(c, Middlewares(areq[c]), FALSE) /\ UNCHANGED pendingEdits
     ELSE IF NoRow(users[areq[c].decoded.id])
     THEN Respond(c, 500, TRUE) /\ UNCHANGED pendingEdits
     ELSE /\ pendingEdits' = Append(pendingEdits,
                 InsertPendingEdit([body EXCEPT !.requestedBy = areq[c].decoded.id]))
          /\ Respond(c, 201, TRUE)
  /\ UNCHANGED <<users, tokens, societies, nonAuthVars>>

\* new Date(): later than every date stored
RECURSIVE LatestReview(_)
LatestReview(edits) ==
  IF edits = <<>> THEN 0 ELSE Max(edits[1].reviewedAt, LatestReview(Tail(edits)))

NewDate == LatestReview(pendingEdits) + 1

\* storage.updatePendingEdit(id, {status, reviewedBy, reviewedAt}): the row
\* of that id, if there is one, whatever its status
UpdatePendingEdit(id, updateEdit) ==
  [i \in 1..Len(pendingEdits) |->
     IF i = id THEN Spread(pendingEdits[i], updateEdit) ELSE pendingEdits[i]]

\* the handlers of approve and reject, which differ in the status they set
Review(c, route, id, status) ==
  /\ AtRoute(c, route)
  /\ NewDate <= MaxReviews
  /\ IF Middlewares(areq[c]) # 0
     THEN Respond(c, Middlewares(areq[c]), FALSE) /\ UNCHANGED pendingEdits
     ELSE IF id <= Len(pendingEdits) /\ NoRow(users[areq[c].decoded.id])
     THEN Respond(c, 500, TRUE) /\ UNCHANGED pendingEdits
     ELSE /\ pendingEdits' = UpdatePendingEdit(id,
                 [status |-> status, reviewedBy |-> areq[c].decoded.id,
                  reviewedAt |-> NewDate])
          /\ Respond(c, 200, TRUE)
  /\ UNCHANGED <<users, tokens, societies, nonAuthVars>>

\* PUT /api/pending-edits/:id/approve
PutApprove(c, id) == Review(c, "PUT /api/pending-edits/:id/approve", id, "approved")

\* PUT /api/pending-edits/:id/reject
PutReject(c, id) == Review(c, "PUT /api/pending-edits/:id/reject", id, "rejected")

Presented == {"missing", "invalid"} \cup UserIds

UserBodies == [role : Roles] \cup [isActive : BOOLEAN]

UserRoutes == {"POST /api/users", "PUT /api/users/:id", "DELETE /api/users/:id"}

\* the accounts managed, used and deleted, on two connections
NextUsers ==
  \/ \E u \in UserIds : Login(u)
  \/ \E c \in Connections, route \in UserRoutes, token \in Presented :
       authenticateToken(c, route, token)
  \/ \E c \in Connections : GetUser(c)
  \/ \E c \in Connections, role \in Roles : PostUsers(c, "u2", role)
  \/ \E c \in Connections, body \in UserBodies : PutUsers(c, "u2", body)
  \/ \E c \in Connections : DeleteUsers(c, "u2")

SpecUsers == Init /\ [][NextUsers]_vars

\* the same, the clients presenting expired tokens as well
NextRevocation ==
  \/ \E u \in UserIds : Login(u)
  \/ \E c \in Connections, route \in UserRoutes, token \in Presented \cup Expired :
       authenticateToken(c, route, token)
  \/ \E c \in Connections : GetUser(c)
  \/ \E c \in Connections, role \in Roles : PostUsers(c, "u2", role)
  \/ \E c \in Connections, body \in UserBodies : PutUsers(c, "u2", body)
  \/ \E c \in Connections : DeleteUsers(c, "u2")

SpecRevocation == Init /\ [][NextRevocation]_vars

EditRoutes == {"POST /api/users", "POST /api/pending-edits"}

\* a body of POST /api/pending-edits that names no status
PlainEdit == [requestedBy |-> "admin"]

\* accounts created, and edits requested
NextPendingEdits ==
  \/ \E u \in UserIds : Login(u)
  \/ \E c \in Connections, route \in EditRoutes, token \in Presented :
       authenticateToken(c, route, token)
  \/ \E c \in Connections : GetUser(c)
  \/ \E c \in Connections, role \in Roles : PostUsers(c, "u2", role)
  \/ \E c \in Connections : PostPendingEdits(c, PlainEdit)

SpecPendingEdits == Init /\ [][NextPendingEdits]_vars

\* bodies of POST /api/pending-edits with a status, and with a requestedBy
\* other than the requester
EditBodies == [requestedBy : UserIds] \cup
              [requestedBy : UserIds, status : {"pending", "approved", "rejected"}]

\* accounts created, edits requested with bodies of every kind, and approved
NextEditBodies ==
  \/ \E u \in UserIds : Login(u)
  \/ \E c \in Connections, token \in Presented,
          route \in EditRoutes \cup {"PUT /api/pending-edits/:id/approve"} :
       authenticateToken(c, route, token)
  \/ \E c \in Connections : GetUser(c)
  \/ \E c \in Connections : PostUsers(c, "u2", "user")
  \/ \E c \in Connections, body \in EditBodies : PostPendingEdits(c, body)
  \/ \E c \in Connections, id \in 1..MaxEdits : PutApprove(c, id)

SpecEditBodies == Init /\ [][NextEditBodies]_vars

\* edits requested without a status, approved and rejected by the seeded
\* super admin
NextReviews ==
  \/ Login("admin")
  \/ \E c \in Connections,
          route \in {"POST /api/pending-edits", "PUT /api/pending-edits/:id/approve",
                     "PUT /api/pending-edits/:id/reject"} :
       authenticateToken(c, route, "admin")
  \/ \E c \in Connections : GetUser(c)
  \/ \E c \in Connections : PostPendingEdits(c, PlainEdit)
  \/ \E c \in Connections, id \in 1..MaxEdits : PutApprove(c, id)
  \/ \E c \in Connections, id \in 1..MaxEdits : PutReject(c, id)

SpecReviews == Init /\ [][NextReviews]_vars

SocietyRoutes == {"POST /api/users", "POST /api/societies", "PUT /api/societies/:id"}

\* the society s1 is created with the account u2 as its admin, s2 with none
AdminOf(sid) == IF sid = "s1" THEN "u2" ELSE "null"

SocietyBodies == [name : {"a", "b"}]

\* accounts and societies created, and societies updated
NextSocieties ==
  \/ \E u \in UserIds : Login(u)
  \/ \E c \in Connections, route \in SocietyRoutes, token \in Presented :
       authenticateToken(c, route, token)
  \/ \E c \in Connections : GetUser(c)
  \/ \E c \in Connections : PostUsers(c, "u2", "society_admin")
  \/ \E c \in Connections, sid \in SocietyIds : PostSocieties(c, sid, AdminOf(sid))
  \/ \E c \in Connections, sid \in SocietyIds, body \in SocietyBodies :
       PutSocieties(c, sid, body)

SpecSocieties == Init /\ [][NextSocieties]_vars

(***************************************************************************)
(* The loan entry form of the client (LoanEntryForm).  An edit of a field  *)
(* is followed by the render and the effects that watch the field.         *)
(***************************************************************************)
\* the two "Auto-calculate" effects, run on the values of the fields f
AutoCalculate(f) ==
  LET netLoan == f.loanAmount - f.previousLoan
  IN [f EXCEPT !.netLoan = netLoan,
               !.installmentAmount =
                  IF netLoan > 0 /\ f.numberOfInstallments > 0
                  THEN Divide(netLoan, f.numberOfInstallments) ELSE @]

\* onChange of the loanAmount, previousLoan and numberOfInstallments inputs
SetLoanAmount(a) ==
  /\ loanForm' = AutoCalculate([loanForm EXCEPT !.loanAmount = a])
  /\ UNCHANGED <<serverVars, formVars, calc, authVars, clientVars, submitVars>>

SetPreviousLoan(a) ==
  /\ loanForm' = AutoCalculate([loanForm EXCEPT !.previousLoan = a])
  /\ UNCHANGED <<serverVars, formVars, calc, authVars, clientVars, submitVars>>

SetNumberOfInstallments(n) ==
  /\ loanForm' = AutoCalculate([loanForm EXCEPT !.numberOfInstallments = n])
  /\ UNCHANGED <<serverVars, formVars, calc, authVars, clientVars, submitVars>>

\* clearForm: form.reset()
clearForm ==
  /\ loanForm' = AutoCalculate(LoanFormDefaults)
  /\ UNCHANGED <<serverVars, formVars, calc, authVars, clientVars, submitVars>>

LoanFormAmounts == 0..MaxNetLoan

NextLoanForm ==
  \/ \E a \in LoanFormAmounts : SetLoanAmount(a)
  \/ \E a \in LoanFormAmounts : SetPreviousLoan(a)
  \/ \E n \in 0..MaxInstallments : SetNumberOfInstallments(n)
  \/ clearForm

SpecLoanForm == Init /\ [][NextLoanForm]_vars

(***************************************************************************)
(* The voucher form of the client (VoucherManagement).                     *)
(***************************************************************************)
\* what parseFloat(e.target.value) || 0 yields in the model: whole amounts
Amounts == (0 - 1)..MaxAmount

Particulars == {"", "Cash"}

EmptyEntry == [particulars |-> "", debit |-> 0, credit |-> 0, type |-> "debit", amount |-> 0]

\* onChange of the amount, type and particulars inputs
SetAmount(a) ==
  /\ currentEntry' = [currentEntry EXCEPT !.amount = a]
  /\ UNCHANGED <<entries, serverVars, extVars>>

SetType(t) ==
  /\ currentEntry' = [currentEntry EXCEPT !.type = t]
  /\ UNCHANGED <<entries, serverVars, extVars>>

SetParticulars(text) ==
  /\ currentEntry' = [currentEntry EXCEPT !.particulars = text]
  /\ UNCHANGED <<entries, serverVars, extVars>>

addEntry ==
  /\ Len(entries) < MaxEntries
  /\ IF currentEntry.particulars = ""
     THEN UNCHANGED <<entries, currentEntry>>
     ELSE /\ entries' = Append(entries,
                [particulars |-> currentEntry.particulars,
                 debit |-> IF currentEntry.type = "debit" THEN currentEntry.amount ELSE 0,
                 credit |-> IF currentEntry.type = "credit" THEN currentEntry.amount ELSE 0])
          /\ currentEntry' = EmptyEntry
  /\ UNCHANGED <<serverVars, extVars>>

\* entries.filter((_, i) => i !== index)
removeEntry(index) ==
  /\ index < Len(entries)
  /\ entries' = [i \in 1..(Len(entries) - 1) |->
                   IF i <= index THEN entries[i] ELSE entries[i + 1]]
  /\ UNCHANGED <<currentEntry, serverVars, extVars>>

clearEntry ==
  /\ currentEntry' = EmptyEntry
  /\ UNCHANGED <<entries, serverVars, extVars>>

resetForm ==
  /\ entries' = <<>>
  /\ currentEntry' = EmptyEntry
  /\ selectedVoucher' = "null"
  /\ UNCHANGED <<serverVars, calc, loanForm, authVars, clientVars, submit>>

\* entries.reduce((sum, entry) => sum + entry[field], 0)
RECURSIVE Reduce(_, _, _)
Reduce(es, field, sum) ==
  IF es = <<>> THEN sum ELSE Reduce(Tail(es), field, sum + es[1][field])

CalculateTotals(es) ==
  [totalDebit |-> Reduce(es, "debit", 0), totalCredit |-> Reduce(es, "credit", 0)]

IsBalancedEqualOnly(es) ==
  CalculateTotals(es).totalDebit = CalculateTotals(es).totalCredit

IsBalanced(es) ==
  LET totals == CalculateTotals(es)
  IN totals.totalDebit = totals.totalCredit /\ totals.totalDebit > 0

\* handleEdit(voucher): the form takes the entries of a voucher of the list
handleEdit(voucher) ==
  /\ selectedVoucher' = voucher.id
  /\ entries' = voucher.entries
  /\ UNCHANGED <<currentEntry, submit, serverVars, calc, loanForm, authVars, clientVars>>

handleSubmitUnchecked ==
  LET totals == CalculateTotals(entries)
  IN /\ submit' = [toast |-> FALSE,
                   request |-> [method |-> IF selectedVoucher # "null" THEN "PUT" ELSE "POST",
                                id |-> selectedVoucher,
                                totalDebit |-> NumToString(Num(totals.totalDebit)),
                                totalCredit |-> NumToString(Num(totals.totalCredit))]]
     /\ UNCHANGED <<entries, currentEntry, selectedVoucher, serverVars, calc, loanForm, authVars, clientVars>>

\* handleSubmit: the error toast, or the create or update mutation; of
\* voucherData the model keeps the totals (its entries are the entries of
\* the form at that time)
handleSubmit ==
  LET totals == CalculateTotals(entries)
  IN /\ IF ~IsBalanced(entries)
        THEN submit' = [toast |-> TRUE, request |-> NoRequest]
        ELSE submit' =
               [toast |-> FALSE,
                request |-> [method |-> IF selectedVoucher # "null" THEN "PUT" ELSE "POST",
                             id |-> selectedVoucher,
                             totalDebit |-> NumToString(Num(totals.totalDebit)),
                             totalCredit |-> NumToString(Num(totals.totalCredit))]]
     /\ UNCHANGED <<entries, currentEntry, selectedVoucher, serverVars, calc, loanForm, authVars, clientVars>>

\* the list of vouchers: one voucher
CashEntry(d, c) == [particulars |-> "Cash", debit |-> d, credit |-> c]

VoucherList == {[id |-> "v1", entries |-> <<CashEntry(1, 0), CashEntry(0, 1)>>]}

\* the amounts typed in the runs that submit the form
SubmitAmounts == {0 - 1, 1}

NextForm ==
  \/ \E a \in Amounts : SetAmount(a)
  \/ \E t \in {"debit", "credit"} : SetType(t)
  \/ \E text \in Particulars : SetParticulars(text)
  \/ addEntry
  \/ \E index \in 0..(MaxEntries - 1) : removeEntry(index)
  \/ clearEntry
  \/ resetForm

SpecForm == Init /\ [][NextForm]_vars

\* the form edited and submitted
NextVoucherForm ==
  \/ \E a \in SubmitAmounts : SetAmount(a)
  \/ \E t \in {"debit", "credit"} : SetType(t)
  \/ SetParticulars("Cash")
  \/ addEntry
  \/ \E index \in 0..(MaxEntries - 1) : removeEntry(index)
  \/ resetForm
  \/ \E voucher \in VoucherList : handleEdit(voucher)
  \/ handleSubmit

SpecVoucherForm == Init /\ [][NextVoucherForm]_vars

(***************************************************************************)
(* The AuthProvider of the client (hooks/use-auth.tsx) and the stored      *)
(* session (lib/auth.ts).  A call of login or logout is split at its       *)
(* await; the API call resolves or throws.                                 *)
(***************************************************************************)
\* the token of the login response of an account
TokenOf(u) == IF u = "admin" THEN "jwt-admin" ELSE "jwt-u2"

\* authApi.setStoredAuth
setStoredAuth(token, user) == [fintcs_token |-> token, fintcs_user |-> user]

\* authApi.clearStoredAuth
clearStoredAuth(storage) ==
  [storage EXCEPT !.fintcs_token = "null", !.fintcs_user = "null"]

\* isAuthenticated: !!user && !!token
isAuthenticated(p) == p.user # "null" /\ p.token # "null"

\* the page is loaded: the state of a new AuthProvider, and its effect on
\* mount; the calls of the page before are gone
Mount ==
  /\ LET storedToken == localStorage.fintcs_token
         storedUser == localStorage.fintcs_user
     IN provider' = IF storedToken # "null" /\ storedUser # "null"
                    THEN [NoSession EXCEPT !.token = storedToken, !.user = storedUser]
                    ELSE NoSession
  /\ inflight' = NoCalls
  /\ UNCHANGED <<localStorage, serverVars, formVars, calc, loanForm, authVars, submitVars>>

\* login up to its await, with the credentials of an account or wrong ones
login(u) ==
  /\ inflight.login = "idle"
  /\ provider' = [provider EXCEPT !.isLoading = TRUE]
  /\ inflight' = [inflight EXCEPT !.login = u]
  /\ UNCHANGED <<localStorage, serverVars, formVars, calc, loanForm, authVars, submitVars>>

\* login after authApi.login has resolved
loginResolved ==
  /\ inflight.login \in UserIds
  /\ provider' = [token |-> TokenOf(inflight.login), user |-> inflight.login,
                  isLoading |-> FALSE, toast |-> "Login Successful"]
  /\ localStorage' = setStoredAuth(TokenOf(inflight.login), inflight.login)
  /\ inflight' = [inflight EXCEPT !.login = "idle"]
  /\ UNCHANGED <<serverVars, formVars, calc, loanForm, authVars, submitVars>>

\* login after authApi.login has thrown
loginRejected ==
  /\ inflight.login # "idle"
  /\ provider' = [provider EXCEPT !.isLoading = FALSE, !.toast = "Login Failed"]
  /\ inflight' = [inflight EXCEPT !.login = "idle"]
  /\ UNCHANGED <<localStorage, serverVars, formVars, calc, loanForm, authVars, submitVars>>

\* logout up to its await
logout ==
  /\ inflight.logout # "awaiting"
  /\ inflight' = [inflight EXCEPT !.logout = "awaiting"]
  /\ UNCHANGED <<provider, localStorage, serverVars, formVars, calc, loanForm, authVars, submitVars>>

\* logout after authApi.logout has returned: the rest of the try block
logoutResolved ==
  /\ inflight.logout = "awaiting"
  /\ provider' = [provider EXCEPT !.user = "null", !.token = "null",
                                  !.toast = "Logged Out"]
  /\ localStorage' = clearStoredAuth(clearStoredAuth(localStorage))
  /\ inflight' = [inflight EXCEPT !.logout = "ended"]
  /\ UNCHANGED <<serverVars, formVars, calc, loanForm, authVars, submitVars>>

logoutRejectedKeep ==
  /\ inflight.logout = "awaiting"
  /\ inflight' = [inflight EXCEPT !.logout = "ended", !.console = "Logout error:"]
  /\ UNCHANGED <<provider, localStorage, serverVars, formVars, calc, loanForm, authVars, submitVars>>

\* logout after apiRequest has thrown: the catch block
logoutRejected ==
  /\ inflight.logout = "awaiting"
  /\ provider' = [provider EXCEPT !.user = "null", !.token = "null"]
  /\ localStorage' = clearStoredAuth(localStorage)
  /\ inflight' = [inflight EXCEPT !.logout = "ended", !.console = "Logout error:"]
  /\ UNCHANGED <<serverVars, formVars, calc, loanForm, authVars, submitVars>>

\* sessions opened and closed in one browser
NextSession ==
  \/ Mount
  \/ \E u \in UserIds \cup {"wrong"} : login(u)
  \/ loginResolved
  \/ loginRejected
  \/ logout
  \/ logoutResolved
  \/ logoutRejected

SpecSession == Init /\ [][NextSession]_vars

(***************************************************************************)
(* Vocabulary of the properties: formats and orders stated independently   *)
(* of the code's parsing and padding.                                      *)
(***************************************************************************)
D(k) == Digits[k + 1]

\* {n:03d} for 0 <= n < 10000
Fmt03d(n) ==
  IF n < 1000 THEN <<D(n \div 100), D((n \div 10) % 10), D(n % 10)>>
  ELSE <<D(n \div 1000), D((n \div 100) % 10), D((n \div 10) % 10), D(n % 10)>>

\* the last two digits of the year
YY(y) == <<D((y % 100) \div 10), D(y % 10)>>

AllDigits(s) == s # <<>> /\ \A i \in 1..Len(s) : IsDigit(s[i])

RECURSIVE DecimalValue(_)
DecimalValue(s) ==
  IF s = <<>> THEN 0
  ELSE DecimalValue(SubSeq(s, 1, Len(s) - 1)) * 10 + DigitVal(s[Len(s)])

StartsWith(s, prefix) == Len(s) >= Len(prefix) /\ SubSeq(s, 1, Len(prefix)) = prefix

Rest(s, k) == SubSeq(s, k + 1, Len(s))

\* s is MEM_n for a decimal number n
IsMemberNo(s) == StartsWith(s, Str_MEM_) /\ AllDigits(Rest(s, 4))

\* s is three characters followed by a decimal number n
IsSerialNo(s) == Len(s) > 3 /\ AllDigits(Rest(s, 3))

\* n is the greatest element of nos in the order of the column
IsGreatest(n, nos) == n \in nos /\ \A o \in nos : ~StrLess(n, o)

MemNosOf(rows) == {r.memNo : r \in rows}

LoanNosOf(rows) == {r.loanNo : r \in rows}

VoucherNosOf(rows, type) == {r.voucherNo : r \in {v \in rows : v.voucherType = type}}

AutoInFlight(p, call) == pc[p] = call /\ req[p].auto

(***************************************************************************)
(* C1 as claimed: after any sequence of auto-numbered creates interleaved  *)
(* with deletes, the numeric suffix of each newly generated identifier is  *)
(* strictly greater than the suffix of every identifier issued before for  *)
(* the same entity type (for vouchers: the same voucher type).  Stated of  *)
(* the step in which a handler generates its number, against the greatest  *)
(* suffix generated and persisted before, in the runs whose creates are    *)
(* all auto-numbered.                                                      *)
(***************************************************************************)
Generates(p, call) == pc[p] = "idle" /\ pc'[p] = call /\ req'[p].auto

Exceeds(suffix, bound) == ~suffix.nan /\ suffix.val > bound

C1_Step ==
  \A p \in Procs :
    /\ Generates(p, "createMember") =>
         Exceeds(MemberSuffix(req'[p].no), issued.member)
    /\ Generates(p, "createLoan") =>
         Exceeds(SerialSuffix(req'[p].no), issued.loan)
    /\ Generates(p, "createVoucher") =>
         Exceeds(SerialSuffix(req'[p].no), issued.voucher[req'[p].type])

C1_StrictlyIncreasing == [][C1_Step]_vars

(***************************************************************************)
(* C2: under every interleaving of concurrent create requests, no two      *)
(* persisted records of the same entity type carry the same identifier.    *)
(***************************************************************************)
C2_UniqueIdentifiers ==
  /\ \A r1, r2 \in members : r1.memNo = r2.memNo => r1 = r2
  /\ \A r1, r2 \in loans : r1.loanNo = r2.loanNo => r1 = r2
  /\ \A r1, r2 \in vouchers : r1.voucherNo = r2.voucherNo => r1 = r2

\* a request in flight holds a generated identifier that a concurrent
\* request has meanwhile persisted
C2_Witness ==
  \E p \in Procs :
    \/ AutoInFlight(p, "createMember") /\ req[p].no \in MemNosOf(members)
         /\ last[p].rows # <<req[p].no>>
    \/ AutoInFlight(p, "createLoan") /\ req[p].no \in LoanNosOf(loans)
         /\ last[p].rows # <<req[p].no>>
    \/ AutoInFlight(p, "createVoucher")
         /\ req[p].no \in {v.voucherNo : v \in vouchers}
         /\ last[p].rows # <<req[p].no>>

(***************************************************************************)
(* C3: when two concurrent identifier-generation calls for the same entity *)
(* type (and voucher type) have read the same last identifier, in the same *)
(* year, and neither insert has committed, both hold the same next         *)
(* identifier.                                                             *)
(***************************************************************************)
C3_SameReadSameNumber ==
  \A p, q \in Procs :
    (/\ p # q
     /\ pc[p] = pc[q]
     /\ pc[p] # "idle"
     /\ req[p].auto
     /\ req[q].auto
     /\ req[p].type = req[q].type
     /\ last[p] = last[q]) =>
        req[p].no = req[q].no

\* the duplicate: two calls in flight with one generated identifier
C3_Witness ==
  \E p, q \in Procs :
    /\ p # q
    /\ pc[p] = pc[q]
    /\ pc[p] # "idle"
    /\ req[p].auto
    /\ req[q].auto
    /\ req[p].no = req[q].no

(***************************************************************************)
(* C4 as claimed: a create whose insert conflicts with an identifier       *)
(* generated by a concurrent create is retried with a fresh identifier, so *)
(* that no auto-numbered create request is answered with a failure.        *)
(***************************************************************************)
C4_AutoCreateNeverFails == res.auto => res.status # 500

(***************************************************************************)
(* C5 as claimed: every persisted voucher is balanced (the sum of its      *)
(* entries' debits equals the sum of their credits and is greater than     *)
(* zero): a body with unbalanced entries stores nothing.                   *)
(***************************************************************************)
RECURSIVE SumOf(_, _)
SumOf(es, field) ==
  IF es = <<>> THEN 0 ELSE es[Len(es)][field] + SumOf(SubSeq(es, 1, Len(es) - 1), field)

Balanced(es) == SumOf(es, "debit") = SumOf(es, "credit") /\ SumOf(es, "debit") > 0

C5_PersistedVouchersBalanced == \A v \in vouchers : Balanced(v.entries)

ExpectedMemberNo(lastNo) == Str_MEM_ \o Fmt03d(DecimalValue(Rest(lastNo, 4)) + 1)

C7_MemberNumber ==
  /\ \A p \in Procs : AutoInFlight(p, "createMember") =>
       /\ last[p].rows = <<>> => req[p].no = MEM_001
       /\ (last[p].rows # <<>> /\ IsMemberNo(last[p].rows[1])) =>
            req[p].no = ExpectedMemberNo(last[p].rows[1])
  /\ members = {} => GenerateMemberNumber(LastMember(members)) = MEM_001
  /\ \A n \in MemNosOf(members) :
       (IsGreatest(n, MemNosOf(members)) /\ IsMemberNo(n)) =>
          GenerateMemberNumber(LastMember(members)) = ExpectedMemberNo(n)

\* an auto-numbered createMember that read MEM_999 and holds MEM_1000
C7_Witness ==
  \E p \in Procs :
    /\ AutoInFlight(p, "createMember")
    /\ last[p].rows = <<MEM_999>>
    /\ req[p].no = Str_MEM_ \o <<"1", "0", "0", "0">>

(***************************************************************************)
(* C8: generateLoanNumber returns L{yy}001 when no loan exists, and when   *)
(* the last loan number has the current year's prefix L{yy} with suffix n  *)
(* it returns L{yy} followed by n+1 zero-padded to three digits, yy being  *)
(* the last two digits of the current year.                                *)
(***************************************************************************)
LoanPrefix(y) == <<"L">> \o YY(y)

ExpectedSerial(prefix, lastNo) == prefix \o Fmt03d(DecimalValue(Rest(lastNo, 3)) + 1)

C8_LoanNumber ==
  /\ \A p \in Procs : AutoInFlight(p, "createLoan") =>
       /\ last[p].rows = <<>> =>
            req[p].no = LoanPrefix(last[p].year) \o <<"0", "0", "1">>
       /\ (/\ last[p].rows # <<>>
           /\ IsSerialNo(last[p].rows[1])
           /\ StartsWith(last[p].rows[1], LoanPrefix(last[p].year))) =>
            req[p].no = ExpectedSerial(LoanPrefix(last[p].year), last[p].rows[1])
  /\ loans = {} =>
       GenerateLoanNumber(LastLoan(loans), year) = LoanPrefix(year) \o <<"0", "0", "1">>
  /\ \A n \in LoanNosOf(loans) :
       (IsGreatest(n, LoanNosOf(loans)) /\ IsSerialNo(n) /\ StartsWith(n, LoanPrefix(year))) =>
          GenerateLoanNumber(LastLoan(loans), year) = ExpectedSerial(LoanPrefix(year), n)

\* the scenario of the specification: last "L24007" in 2024 gives "L24008"
C8_Witness ==
  \E p \in Procs :
    /\ AutoInFlight(p, "createLoan")
    /\ last[p] = [rows |-> <<L24007>>, year |-> 2024]
    /\ req[p].no = <<"L", "2", "4", "0", "0", "8">>

(***************************************************************************)
(* C9 as claimed: when loans exist only with an earlier year's prefix and  *)
(* none with the current year's prefix, generateLoanNumber returns         *)
(* L{yy}001.                                                               *)
(***************************************************************************)
\* n is L, two digits of a year before y, and more
HasEarlierPrefix(n, y) ==
  /\ Len(n) >= 3
  /\ n[1] = "L"
  /\ AllDigits(SubSeq(n, 2, 3))
  /\ DecimalValue(SubSeq(n, 2, 3)) < y % 100

C9_RestartsEachYear ==
  (loans # {} /\ \A n \in LoanNosOf(loans) : HasEarlierPrefix(n, year)) =>
     GenerateLoanNumber(LastLoan(loans), year) = LoanPrefix(year) \o <<"0", "0", "1">>

(***************************************************************************)
(* C9 amended: when loans exist only with an earlier year's prefix, the    *)
(* suffix is not restarted: if the last loan number (greatest loanNo in    *)
(* descending string order) has the numeric suffix n after its three       *)
(* character prefix, generateLoanNumber returns L{yy} followed by n+1      *)
(* zero-padded to three digits.                                            *)
(***************************************************************************)
C9_ContinuesAcrossYears ==
  /\ \A p \in Procs :
       (/\ AutoInFlight(p, "createLoan")
        /\ last[p].rows # <<>>
        /\ HasEarlierPrefix(last[p].rows[1], last[p].year)
        /\ IsSerialNo(last[p].rows[1])) =>
          req[p].no = ExpectedSerial(LoanPrefix(last[p].year), last[p].rows[1])
  /\ \A n \in LoanNosOf(loans) :
       (/\ \A o \in LoanNosOf(loans) : HasEarlierPrefix(o, year)
        /\ IsGreatest(n, LoanNosOf(loans))
        /\ IsSerialNo(n)) =>
          GenerateLoanNumber(LastLoan(loans), year) = ExpectedSerial(LoanPrefix(year), n)

\* last "L24007", read in 2025, gives "L25008"
C9_Witness ==
  \E p \in Procs :
    /\ AutoInFlight(p, "createLoan")
    /\ last[p] = [rows |-> <<L24007>>, year |-> 2025]
    /\ req[p].no = <<"L", "2", "5", "0", "0", "8">>
    /\ \A n \in LoanNosOf(loans) : HasEarlierPrefix(n, year)

(***************************************************************************)
(* C10: generateVoucherNumber(type) returns the uppercase first letter of  *)
(* the type, the two-digit year, and n zero-padded to three digits, where  *)
(* n is 1 when no voucher of that type exists and otherwise one more than  *)
(* the suffix of the last voucher of that same type; creating or deleting  *)
(* vouchers of one type never changes the next number generated for        *)
(* another type.                                                           *)
(***************************************************************************)
Initial(type) == IF type = payment THEN "P" ELSE "R"

VoucherPrefix(type, y) == <<Initial(type)>> \o YY(y)

NextVoucherNumber(type) == GenerateVoucherNumber(type, LastVoucher(vouchers, type), year)

C10_Format ==
  /\ \A p \in Procs : AutoInFlight(p, "createVoucher") =>
       /\ last[p].rows = <<>> =>
            req[p].no = VoucherPrefix(req[p].type, last[p].year) \o <<"0", "0", "1">>
       /\ (last[p].rows # <<>> /\ IsSerialNo(last[p].rows[1])) =>
            req[p].no = ExpectedSerial(VoucherPrefix(req[p].type, last[p].year),
                                       last[p].rows[1])
  /\ \A t \in VoucherTypes :
       /\ VoucherNosOf(vouchers, t) = {} =>
            NextVoucherNumber(t) = VoucherPrefix(t, year) \o <<"0", "0", "1">>
       /\ \A n \in VoucherNosOf(vouchers, t) :
            (IsGreatest(n, VoucherNosOf(vouchers, t)) /\ IsSerialNo(n)) =>
               NextVoucherNumber(t) = ExpectedSerial(VoucherPrefix(t, year), n)

\* a step that leaves the vouchers of type t and the year as they are
\* leaves the next number of type t as it is
C10_Frame ==
  \A t \in VoucherTypes :
    (/\ {v \in vouchers : v.voucherType = t} = {v \in vouchers' : v.voucherType = t}
     /\ year' = year) =>
       GenerateVoucherNumber(t, LastVoucher(vouchers', t), year') = NextVoucherNumber(t)

C10_VoucherNumber == [](C10_Format) /\ [][C10_Frame]_vars

\* a receipt number continued from the last receipt while a payment exists
C10_Witness ==
  \E p \in Procs :
    /\ AutoInFlight(p, "createVoucher")
    /\ req[p].type = receipt
    /\ last[p].rows # <<>>
    /\ req[p].no = <<"R", "2", "4", "0", "0", "2">>
    /\ \E v \in vouchers : v.voucherType = payment

(***************************************************************************)
(* C11 as claimed: when the last stored identifier of a type does not      *)
(* match the expected format, the next auto-numbered create of that type   *)
(* is answered with a failure and persists no record, so that no           *)
(* identifier derived from the failed parse (one containing NaN) is ever   *)
(* stored.                                                                 *)
(***************************************************************************)
ContainsNaN(s) ==
  \E i \in 1..(Len(s) - 2) : SubSeq(s, i, i + 2) = <<"N", "a", "N">>

C11_NoFailedParseStored ==
  /\ \A r \in members : ~ContainsNaN(r.memNo)
  /\ \A r \in loans : ~ContainsNaN(r.loanNo)
  /\ \A r \in vouchers : ~ContainsNaN(r.voucherNo)

(***************************************************************************)
(* C12 as claimed: once a member has been created, its identifier is never *)
(* changed by any later operation: in every step, every record that exists *)
(* before and after the step carries the same memNo (ids are never         *)
(* reused).                                                                *)
(***************************************************************************)
C12_Step ==
  \A r \in members, r2 \in members' : r.id = r2.id => r.memNo = r2.memNo

C12_IdentifierNeverMutated == [][C12_Step]_vars

C14_InstallmentAmount ==
  calc.called =>
    /\ calc.numberOfInstallments <= 0 => calc.result = Whole(0)
    /\ calc.numberOfInstallments > 0 =>
         /\ calc.result.den > 0
         /\ calc.result.num * calc.numberOfInstallments = calc.netLoan * calc.result.den
         /\ calc.netLoan % calc.numberOfInstallments = 0 =>
              calc.result = Whole(calc.netLoan \div calc.numberOfInstallments)

\* a net loan the count does not divide: 10 / 4 is 5/2
C14_Witness ==
  /\ calc.called
  /\ calc.netLoan = 10
  /\ calc.numberOfInstallments = 4
  /\ calc.result = [num |-> 5, den |-> 2]

(***************************************************************************)
(* C15 as claimed: in the loan entry form, after any sequence of edits to  *)
(* loanAmount, previousLoan and numberOfInstallments, the derived fields   *)
(* are in step with the inputs: netLoan = loanAmount - previousLoan, and   *)
(* installmentAmount = netLoan / numberOfInstallments when                 *)
(* numberOfInstallments > 0 and 0 otherwise.                               *)
(***************************************************************************)
C15_DerivedFieldsInStep ==
  /\ loanForm.netLoan = loanForm.loanAmount - loanForm.previousLoan
  /\ loanForm.installmentAmount =
       calculateInstallmentAmount(loanForm.netLoan, loanForm.numberOfInstallments)

(***************************************************************************)
(* C16 as claimed: every entry of a voucher has debit >= 0 and             *)
(* credit >= 0: an entry with a negative amount can never be added to the  *)
(* entries of the voucher form, nor be persisted.                          *)
(***************************************************************************)
NonNegative(es) == \A i \in 1..Len(es) : es[i].debit >= 0 /\ es[i].credit >= 0

C16_EntriesNonNegative ==
  /\ NonNegative(entries)
  /\ \A v \in vouchers : NonNegative(v.entries)

(***************************************************************************)
(* C17: a request reaches the handler of a role-gated route only if it     *)
(* carries a valid token of an existing, active user whose role, as read   *)
(* from the users table for this request (not the role in the token), is   *)
(* in the route's allowed list; otherwise the handler is not run and the   *)
(* stored data is unchanged (no token: 401, invalid or expired token: 403, *)
(* unknown or inactive user: 401, role not allowed: 403).                  *)
(***************************************************************************)
Completes(c) == areq[c].pc = "next" /\ areq'[c].pc = "idle"

Admitted(r) ==
  /\ ~NoRow(r.user)
  /\ r.user.isActive
  /\ HasRequireRole(r.route) => r.user.role \in RequireRoleOf(r.route)

StoredData == <<users, societies, pendingEdits>>

C17_Tokens ==
  /\ ares.token = "missing" => (ares.status = 401 /\ ~ares.handled)
  /\ ares.token = "invalid" => (ares.status = 403 /\ ~ares.handled)

C17_Step ==
  /\ \A c \in Connections :
       /\ (areq[c].pc = "getUser" /\ areq'[c].pc = "next") =>
            areq'[c].user = (IF NoRow(users[areq[c].decoded.id]) THEN NoUser
                             ELSE users[areq[c].decoded.id])
       /\ (Completes(c) /\ ares'.handled) => Admitted(areq[c])
       /\ (Completes(c) /\ ~Admitted(areq[c])) =>
            /\ ~ares'.handled
            /\ StoredData' = StoredData
            /\ ares'.status = (IF NoRow(areq[c].user) \/ ~areq[c].user.isActive
                               THEN 401 ELSE 403)
  /\ StoredData' # StoredData => \E c \in Connections : Completes(c) /\ ares'.handled

C17_RoleGate == [](C17_Tokens) /\ [][C17_Step]_vars

\* a handler run for a token issued with role user whose account was made
\* super_admin since
C17_Witness ==
  /\ ares.handled
  /\ ares.status = 200
  /\ ares.tokenRole = "user"
  /\ ares.role = "super_admin"

(***************************************************************************)
(* C18 as claimed: an authenticated account with role 'user' has read-only *)
(* access: no request made with the token of an account whose role is      *)
(* 'user' creates, modifies or deletes any stored record.                  *)
(***************************************************************************)
C18_Step ==
  \A c \in Connections :
    (Completes(c) /\ areq[c].user.role = "user") => StoredData' = StoredData

C18_UserReadOnly == [][C18_Step]_vars

(***************************************************************************)
(* C19 as claimed: no request made with the token of a society_admin       *)
(* modifies a society other than the one that admin administers.           *)
(***************************************************************************)
C19_Step ==
  \A c \in Connections :
    (Completes(c) /\ areq[c].user.role = "society_admin") =>
       \A sid \in SocietyIds :
         societies'[sid] # societies[sid] =>
           societies[sid].adminUserId = areq[c].decoded.id

C19_SocietySpecific == [][C19_Step]_vars

(***************************************************************************)
(* C20: in the voucher form, submitting while the entries are not balanced *)
(* sends neither a create nor an update request and leaves the form's      *)
(* entries and fields unchanged (an error is shown); a request is sent     *)
(* only when the debit and credit totals are equal and greater than zero,  *)
(* and it then carries totalDebit and totalCredit equal to the sums of the *)
(* entries.                                                                *)
(***************************************************************************)
\* the decimal text of n > 0
Decimal(n) == IF n < 10 THEN <<D(n)>> ELSE <<D(n \div 10), D(n % 10)>>

C20_Outcome ==
  /\ submit.toast => submit.request = NoRequest
  /\ submit.request # NoRequest =>
       /\ submit.request.method \in {"POST", "PUT"}
       /\ submit.request.method = "PUT" <=> submit.request.id # "null"
       /\ submit.request.totalDebit = submit.request.totalCredit

\* the step of a submit: what it does is decided by the entries it finds
C20_Step ==
  submit' # submit =>
    /\ <<entries, currentEntry, selectedVoucher>>' = <<entries, currentEntry, selectedVoucher>>
    /\ ~Balanced(entries) => (submit'.toast /\ submit'.request = NoRequest)
    /\ Balanced(entries) =>
         /\ ~submit'.toast
         /\ submit'.request.method = (IF selectedVoucher = "null" THEN "POST" ELSE "PUT")
         /\ submit'.request.totalDebit = Decimal(SumOf(entries, "debit"))
         /\ submit'.request.totalCredit = Decimal(SumOf(entries, "credit"))

C20_SubmitOnlyBalanced == [](C20_Outcome) /\ [][C20_Step]_vars

\* a submit refused with equal totals that are not greater than zero
C20_Witness ==
  /\ submit.toast
  /\ Len(entries) >= 2
  /\ SumOf(entries, "debit") = SumOf(entries, "credit")
  /\ SumOf(entries, "debit") <= 0
  /\ \E i \in 1..Len(entries) : entries[i].debit # 0

(***************************************************************************)
(* C21: logout always ends in the unauthenticated state: whether the       *)
(* logout API call succeeds or throws, when logout ends the provider's     *)
(* user and token are null, isAuthenticated is false, and the stored token *)
(* and user are removed from localStorage.                                 *)
(***************************************************************************)
LogoutEnds == inflight.logout = "awaiting" /\ inflight'.logout = "ended"

C21_Step ==
  LogoutEnds =>
    /\ provider'.user = "null"
    /\ provider'.token = "null"
    /\ ~isAuthenticated(provider')
    /\ localStorage'.fintcs_token = "null"
    /\ localStorage'.fintcs_user = "null"

C21_LogoutUnauthenticated == [][C21_Step]_vars

\* a session opened by a login has been closed by a logout whose API call
\* threw
C21_Witness ==
  /\ inflight.logout = "ended"
  /\ inflight.console = "Logout error:"
  /\ provider.toast = "Login Successful"
  /\ ~isAuthenticated(provider)
  /\ localStorage = NoStoredAuth

(***************************************************************************)
(* C22 as claimed: after a user is deactivated or deleted, every later     *)
(* request carrying a token issued to that user before the change is       *)
(* rejected with 401 and runs no protected handler; and a change of the    *)
(* user's role applies to the very next request made with the old token,   *)
(* because authorization uses the stored role, not the role inside the     *)
(* token.  "Later" is taken as: the account is deactivated or deleted when *)
(* authenticateToken looks it up, or, for a token that no longer verifies, *)
(* when the request arrives.                                               *)
(***************************************************************************)
Revoked(user) == NoRow(user) \/ ~user.isActive

\* the lookup of authenticateToken returns the row as stored at that time
C22_Read(c) ==
  (areq[c].pc = "getUser" /\ areq'[c].pc = "next") =>
    /\ Revoked(areq'[c].user) <=> Revoked(users[areq[c].decoded.id])
    /\ ~Revoked(areq'[c].user) => areq'[c].user.role = users[areq[c].decoded.id].role

\* a request whose lookup found the account deactivated or deleted
C22_RevokedStep(c) ==
  (Completes(c) /\ Revoked(areq[c].user)) =>
    /\ ares'.status = 401
    /\ ~ares'.handled
    /\ StoredData' = StoredData

\* a request whose lookup found the account active: the role found decides
C22_RoleStep(c) ==
  (Completes(c) /\ ~Revoked(areq[c].user) /\ HasRequireRole(areq[c].route)) =>
    /\ ares'.handled <=> areq[c].user.role \in RequireRoleOf(areq[c].route)
    /\ ~ares'.handled => (ares'.status = 403 /\ StoredData' = StoredData)

\* a request with an expired token of an account is answered in this step
ExpiredArrives == ares' # ares /\ ares'.token = "expired"

C22_ExpiredStep_401 ==
  (ExpiredArrives /\ Revoked(users[ares'.id])) =>
    /\ ares'.status = 401
    /\ ~ares'.handled
    /\ StoredData' = StoredData

C22_Step_401 ==
  /\ \A c \in Connections : C22_Read(c) /\ C22_RevokedStep(c) /\ C22_RoleStep(c)
  /\ C22_ExpiredStep_401

C22_RevokedOrChanged_401 == [][C22_Step_401]_vars

(***************************************************************************)
(* C22 as the code has it: the same, except that a request whose token has *)
(* expired is rejected with 403, the account being deactivated, deleted or *)
(* neither: verifyToken throws before the account is looked up.            *)
(***************************************************************************)
C22_ExpiredStep ==
  ExpiredArrives =>
    /\ ares'.status = 403
    /\ ~ares'.handled
    /\ StoredData' = StoredData
    /\ UNCHANGED areq

C22_Step ==
  /\ \A c \in Connections : C22_Read(c) /\ C22_RevokedStep(c) /\ C22_RoleStep(c)
  /\ C22_ExpiredStep

C22_RevokedOrChanged == [][C22_Step]_vars

\* the expired token of an account deleted or deactivated since its login
\* has been refused with 403
C22_Witness ==
  /\ ares.token = "expired"
  /\ ares.status = 403
  /\ ares.id = "u2"
  /\ tokens["u2"] # "none"
  /\ Revoked(users["u2"])

(***************************************************************************)
(* C23 as claimed: every pending edit whose status is 'approved' or        *)
(* 'rejected' was moved there by the approve or reject endpoint called by  *)
(* a super_admin, and has reviewedBy set to that super_admin and           *)
(* reviewedAt set; no request by a non-super_admin can produce a pending   *)
(* edit in status 'approved' or 'rejected', and requestedBy of a created   *)
(* edit is always the id of the authenticated requester regardless of the  *)
(* request body.                                                           *)
(***************************************************************************)
Final(edit) == edit.status \in {"approved", "rejected"}

ReviewRoute(route) ==
  route \in {"PUT /api/pending-edits/:id/approve", "PUT /api/pending-edits/:id/reject"}

Created(i) == i > Len(pendingEdits)

C23_Reviewed ==
  \A i \in 1..Len(pendingEdits) :
    Final(pendingEdits[i]) =>
      (pendingEdits[i].reviewedBy # "null" /\ pendingEdits[i].reviewedAt # 0)

C23_Step ==
  \A i \in 1..Len(pendingEdits') :
    /\ (Final(pendingEdits'[i]) /\ (Created(i) \/ pendingEdits'[i] # pendingEdits[i])) =>
         \E c \in Connections :
           /\ Completes(c)
           /\ ReviewRoute(areq[c].route)
           /\ areq[c].user.role = "super_admin"
           /\ pendingEdits'[i].reviewedBy = areq[c].decoded.id
    /\ Created(i) =>
         \E c \in Connections :
           /\ Completes(c)
           /\ areq[c].route = "POST /api/pending-edits"
           /\ pendingEdits'[i].requestedBy = areq[c].decoded.id

C23_ReviewedBySuperAdmin == [](C23_Reviewed) /\ [][C23_Step]_vars

(***************************************************************************)
(* C24 as claimed: the pending-edit status is a one-way workflow: an edit  *)
(* starts as 'pending', approve moves it to 'approved' and reject to       *)
(* 'rejected', and once an edit is 'approved' or 'rejected' no later       *)
(* approve or reject request changes its status, reviewedBy or reviewedAt. *)
(***************************************************************************)
C24_Step ==
  \A i \in 1..Len(pendingEdits') :
    IF Created(i) THEN pendingEdits'[i].status = "pending"
    ELSE /\ Final(pendingEdits[i]) => pendingEdits'[i] = pendingEdits[i]
         /\ pendingEdits'[i].status # pendingEdits[i].status =>
              \E c \in Connections :
                /\ Completes(c)
                /\ ReviewRoute(areq[c].route)
                /\ pendingEdits'[i].status =
                     (IF areq[c].route = "PUT /api/pending-edits/:id/approve"
                      THEN "approved" ELSE "rejected")

C24_OneWay == [][C24_Step]_vars

(***************************************************************************)
(* C25 as claimed: every persisted voucher's stored totalDebit and         *)
(* totalCredit equal the sums of the debit and credit fields of its stored *)
(* entries, after any sequence of voucher create and update requests.      *)
(***************************************************************************)
C25_StoredTotals ==
  \A v \in vouchers :
    /\ v.totalDebit = SumOf(v.entries, "debit")
    /\ v.totalCredit = SumOf(v.entries, "credit")

====
